---- MODULE Spec2Model ----
(***************************************************************************)
(* Model of MCPProvider (examples/main/src/utils/mcp.context.tsx): the     *)
(* React context that owns one MCP client session, its connect/disconnect  *)
(* handlers, the six protocol operations and the elicitation modal.        *)
(*                                                                         *)
(* React state is modelled twice: `st` is the committed value of the six   *)
(* useState cells, `view` is the value captured by the closures of the     *)
(* last render (what connect, disconnect, listTools... and the modal read).*)
(* setState calls made in one synchronous run of a handler are batched     *)
(* into one update of `st`; the render that follows copies `st` to `view`. *)
(* Every `await` in the source splits a handler in two actions.            *)
(***************************************************************************)
EXTENDS Integers, FiniteSets, Sequences, TLC

\* ---- bounds -------------------------------------------------------------
MaxTransports == 2      \* Client/transport pairs ever constructed
MaxClosing    == 1      \* disconnect() calls awaiting transport.close()
MaxOffers     == 2      \* elicitation requests ever received
MaxRequests   == 1      \* protocol requests ever delegated to a client
MaxDecides    == 2      \* invocations of one elicitation resolver

Null == 0               \* null / undefined

Transports == 1..MaxTransports
Offers     == 1..MaxOffers
Requests   == 1..MaxRequests

Methods == {"tools/list", "prompts/list", "prompts/get",
            "resources/list", "resources/read", "tools/call"}

Contents == {"x"}
ValidationOutcomes == {"ok", "invalid", "throws"}

VARIABLES
  st,         \* committed React state: the six useState cells
  view,       \* the state captured by the closures of the last render
  tstatus,    \* per constructed transport: its connection status
  created,    \* number of Client/transport pairs constructed so far
  closing,    \* per transport: disconnect() calls awaiting its close()
  promise,    \* per elicitation request: the Promise its handler returned
  requests,   \* per delegated protocol request: owning client and outcome
  last        \* the step taken last and what it returned

vars == <<st, view, tstatus, created, closing, promise, requests, last>>

Step(op, res) == [op |-> op, res |-> res]

InitialState ==
  [client |-> Null, transport |-> Null, isConnected |-> FALSE,
   elicitationRequest |-> Null, elicitationResolver |-> Null,
   sessionId |-> Null]

NewPromise == [status |-> "unused", decision |-> "none", calls |-> 0, delivered |-> 0]

NewRequest == [client |-> Null, status |-> "unused", awaiter |-> "none"]

Init ==
  /\ st = InitialState
  /\ view = InitialState
  /\ tstatus = [t \in Transports |-> "none"]
  /\ created = 0
  /\ closing = [t \in Transports |-> 0]
  /\ promise = [p \in Offers |-> NewPromise]
  /\ requests = [r \in Requests |-> NewRequest]
  /\ last = Step("init", "none")

\* ---- render -------------------------------------------------------------
\* A render of MCPProvider: the handlers and the modal of the new render
\* close over the committed state.
MCPProvider ==
  /\ view # st
  /\ view' = st
  /\ last' = Step("render", "none")
  /\ UNCHANGED <<st, tstatus, created, closing, promise, requests>>

\* ---- connect ------------------------------------------------------------
\* connect() as it would be without its guard on the rendered client.
connectUnguarded ==
  /\ created < MaxTransports
  /\ created' = created + 1
  /\ tstatus' = [tstatus EXCEPT ![created + 1] = "handshaking"]
  /\ last' = Step("connect", "started")
  /\ UNCHANGED <<st, view, closing, promise, requests>>

\* connect() up to its await: the guard on the rendered client, then the
\* construction of a Client and a transport and the start of the handshake.
connect ==
  \/ /\ view.client # Null
     /\ last' = Step("connect", "noop")
     /\ UNCHANGED <<st, view, tstatus, created, closing, promise, requests>>
  \/ /\ view.client = Null
     /\ created < MaxTransports
     /\ created' = created + 1
     /\ tstatus' = [tstatus EXCEPT ![created + 1] = "handshaking"]
     /\ last' = Step("connect", "started")
     /\ UNCHANGED <<st, view, closing, promise, requests>>

\* newClient.connect(newTransport) resolved: the rest of the try block.
connectResolved(t) ==
  /\ tstatus[t] = "handshaking"
  /\ tstatus' = [tstatus EXCEPT ![t] = "open"]
  /\ \E sid \in {Null, t} :
       st' = [st EXCEPT !.client = t, !.transport = t,
                        !.isConnected = TRUE, !.sessionId = sid]
  /\ last' = Step("handshake", "ok")
  /\ UNCHANGED <<view, created, closing, promise, requests>>

\* A catch block that would log the error and reset nothing.
connectRejectedKeeps(t) ==
  /\ tstatus[t] = "handshaking"
  /\ tstatus' = [tstatus EXCEPT ![t] = "failed"]
  /\ last' = Step("handshake", "caught")
  /\ UNCHANGED <<st, view, created, closing, promise, requests>>

\* newClient.connect(newTransport) rejected: the catch block.
connectRejected(t) ==
  /\ tstatus[t] = "handshaking"
  /\ tstatus' = [tstatus EXCEPT ![t] = "failed"]
  /\ st' = [st EXCEPT !.client = Null, !.transport = Null,
                      !.isConnected = FALSE]
  /\ last' = Step("handshake", "caught")
  /\ UNCHANGED <<view, created, closing, promise, requests>>

\* ---- transport collaborator --------------------------------------------
\* Teardown of a transport invalidates the requests in flight on it.
RejectPending(reqs, t) ==
  [r \in Requests |->
     IF reqs[r].client = t /\ reqs[r].status = "pending"
       THEN [reqs[r] EXCEPT !.status = "SessionClosed"]
       ELSE reqs[r]]

\* ---- transport close ----------------------------------------------------
\* newTransport.onclose
oncloseState(s) == [s EXCEPT !.isConnected = FALSE, !.sessionId = Null]

\* The transport is closed from the other side (peer drop, network error).
onclose(t) ==
  /\ tstatus[t] = "open"
  /\ tstatus' = [tstatus EXCEPT ![t] = "closed"]
  /\ st' = oncloseState(st)
  /\ requests' = RejectPending(requests, t)
  /\ last' = Step("onclose", "none")
  /\ UNCHANGED <<view, created, closing, promise>>

\* ---- disconnect ---------------------------------------------------------
RECURSIVE SumUpTo(_, _)
SumUpTo(f, n) == IF n = 0 THEN 0 ELSE f[n] + SumUpTo(f, n - 1)

\* disconnect() up to its await: the guard on the rendered transport, then
\* the call of transport.close().
disconnect ==
  \/ /\ view.transport = Null
     /\ last' = Step("disconnect", "noop")
     /\ UNCHANGED <<st, view, tstatus, created, closing, promise, requests>>
  \/ /\ view.transport # Null
     /\ SumUpTo(closing, MaxTransports) < MaxClosing
     /\ closing' = [closing EXCEPT ![view.transport] = @ + 1]
     /\ last' = Step("disconnect", "closing")
     /\ UNCHANGED <<st, view, tstatus, created, promise, requests>>

\* A disconnect() that would forget setIsConnected(false).
closeResolvedStaysConnected(t, fires) ==
  /\ closing[t] > 0
  /\ closing' = [closing EXCEPT ![t] = @ - 1]
  /\ tstatus' = [tstatus EXCEPT ![t] = "closed"]
  /\ st' = [(IF fires THEN oncloseState(st) ELSE st)
              EXCEPT !.client = Null, !.transport = Null]
  /\ requests' = RejectPending(requests, t)
  /\ last' = Step("close", "ok")
  /\ UNCHANGED <<view, created, promise>>

\* A disconnect() that would forget setClient(null).
closeResolvedKeepsClient(t, fires) ==
  /\ closing[t] > 0
  /\ closing' = [closing EXCEPT ![t] = @ - 1]
  /\ tstatus' = [tstatus EXCEPT ![t] = "closed"]
  /\ st' = [(IF fires THEN oncloseState(st) ELSE st)
              EXCEPT !.transport = Null, !.isConnected = FALSE]
  /\ requests' = RejectPending(requests, t)
  /\ last' = Step("close", "ok")
  /\ UNCHANGED <<view, created, promise>>

\* transport.close() resolved: the rest of the try block.  Whether close()
\* itself invokes the onclose callback is the transport's business: both
\* outcomes are allowed.
closeResolved(t, fires) ==
  /\ closing[t] > 0
  /\ closing' = [closing EXCEPT ![t] = @ - 1]
  /\ tstatus' = [tstatus EXCEPT ![t] = "closed"]
  /\ st' = [(IF fires THEN oncloseState(st) ELSE st)
              EXCEPT !.client = Null, !.transport = Null,
                     !.isConnected = FALSE]
  /\ requests' = RejectPending(requests, t)
  /\ last' = Step("close", "ok")
  /\ UNCHANGED <<view, created, promise>>

\* A catch block that would log and throw the error on to the caller.
closeRejectedThrows(t) ==
  /\ closing[t] > 0
  /\ closing' = [closing EXCEPT ![t] = @ - 1]
  /\ last' = Step("close", "thrown")
  /\ UNCHANGED <<st, view, tstatus, created, promise, requests>>

\* transport.close() rejected: the catch block only logs.
closeRejected(t) ==
  /\ closing[t] > 0
  /\ closing' = [closing EXCEPT ![t] = @ - 1]
  /\ last' = Step("close", "caught")
  /\ UNCHANGED <<st, view, tstatus, created, promise, requests>>

\* ---- protocol operations ------------------------------------------------
\* client.request on the client of a transport: a request in flight when
\* the transport is open, a transport error otherwise.
ClientRequest(reqs, r, c, awaiter) ==
  [reqs EXCEPT ![r] = [client |-> c,
                       status |-> IF tstatus[c] = "open" THEN "pending"
                                  ELSE "TransportError",
                       awaiter |-> awaiter]]

FreeRequests == {r \in Requests : requests[r].status = "unused"}

\* An operation that would wait for the elicitation slot to be empty before
\* it delegates.
ProtocolOpBlocked(method) ==
  \/ /\ view.client = Null
     /\ last' = Step(method, "NotConnected")
     /\ UNCHANGED <<st, view, tstatus, created, closing, promise, requests>>
  \/ /\ view.client # Null
     /\ st.elicitationResolver = Null
     /\ FreeRequests # {}
     /\ LET r == CHOOSE x \in FreeRequests : \A y \in FreeRequests : x <= y
        IN /\ requests' = ClientRequest(requests, r, view.client, "caller")
           /\ last' = Step(method, "delegated")
     /\ UNCHANGED <<st, view, tstatus, created, closing, promise>>

\* The body shared by the six operations: throw when the rendered client is
\* null, otherwise delegate to client.request with the operation's method.
ProtocolOp(method) ==
  \/ /\ view.client = Null
     /\ last' = Step(method, "NotConnected")
     /\ UNCHANGED <<st, view, tstatus, created, closing, promise, requests>>
  \/ /\ view.client # Null
     /\ FreeRequests # {}
     /\ LET r == CHOOSE x \in FreeRequests : \A y \in FreeRequests : x <= y
        IN /\ requests' = ClientRequest(requests, r, view.client, "caller")
           /\ last' = Step(method, "delegated")
     /\ UNCHANGED <<st, view, tstatus, created, closing, promise>>

listTools     == ProtocolOp("tools/list")
listPrompts   == ProtocolOp("prompts/list")
getPrompt     == ProtocolOp("prompts/get")
listResources == ProtocolOp("resources/list")
readResource  == ProtocolOp("resources/read")
callTool      == ProtocolOp("tools/call")

\* The response to a request in flight arrives.
Response(r) ==
  /\ requests[r].status = "pending"
  /\ requests' = [requests EXCEPT ![r].status = "fulfilled"]
  /\ last' = Step("response", "fulfilled")
  /\ UNCHANGED <<st, view, tstatus, created, closing, promise>>

\* A request made by one of the six operations fails: the promise the
\* operation returned rejects to its caller.
requestRejected(r) ==
  /\ requests[r].status = "pending"
  /\ requests[r].awaiter = "caller"
  /\ requests' = [requests EXCEPT ![r].status = "TransportError"]
  /\ last' = Step("response", "rejected")
  /\ UNCHANGED <<st, view, tstatus, created, closing, promise>>

\* ---- notifications -----------------------------------------------------
\* The handler registered for ResourceListChangedNotificationSchema, up to
\* its await: a notification arrives on an open transport and the handler
\* asks the client it was registered on for the resource list.
ResourceListChanged(t) ==
  /\ tstatus[t] = "open"
  /\ FreeRequests # {}
  /\ LET r == CHOOSE x \in FreeRequests : \A y \in FreeRequests : x <= y
     IN requests' = ClientRequest(requests, r, t, "notification")
  /\ last' = Step("notification", "resources/list")
  /\ UNCHANGED <<st, view, tstatus, created, closing, promise>>

\* A handler whose failed follow-up request would escape it.
notificationUncaught(r) ==
  /\ requests[r].status = "pending"
  /\ requests[r].awaiter = "notification"
  /\ requests' = [requests EXCEPT ![r].status = "TransportError"]
  /\ last' = Step("response", "unhandled")
  /\ UNCHANGED <<st, view, tstatus, created, closing, promise>>

\* The follow-up request of the handler fails: the catch block only warns.
notificationCaught(r) ==
  /\ requests[r].status = "pending"
  /\ requests[r].awaiter = "notification"
  /\ requests' = [requests EXCEPT ![r].status = "TransportError"]
  /\ last' = Step("response", "caught")
  /\ UNCHANGED <<st, view, tstatus, created, closing, promise>>

\* ---- elicitation -------------------------------------------------------
FreeOffers == {p \in Offers : promise[p].status = "unused"}

\* The handler registered for ElicitRequestSchema: a server request arrives
\* on an open transport, the handler creates a Promise and stores the
\* request and the resolver of that Promise in the state.
ElicitRequest(t) ==
  /\ tstatus[t] = "open"
  /\ FreeOffers # {}
  /\ LET p == CHOOSE x \in FreeOffers : \A y \in FreeOffers : x <= y
     IN /\ promise' = [promise EXCEPT ![p].status = "suspended"]
        /\ st' = [st EXCEPT !.elicitationRequest = p,
                            !.elicitationResolver = p]
        /\ last' = Step("elicit", "accepted")
  /\ UNCHANGED <<view, tstatus, created, closing, requests>>

\* A resolve(res) that would settle the Promise again on every call.
ResolveAgain(pr, res) ==
  [pr EXCEPT !.status = "resolved", !.decision = res, !.delivered = @ + 1]

\* resolve(res) of a Promise: settles it when it is still pending, and has
\* no effect on a settled one.
Resolve(pr, res) ==
  IF pr.status = "suspended"
    THEN [pr EXCEPT !.status = "resolved", !.decision = res,
                    !.delivered = @ + 1]
    ELSE pr

\* A resolver that would clear the stored request and keep itself stored.
elicitationResolverKeeps(p, res) ==
  /\ promise[p].calls < MaxDecides
  /\ promise' = [promise EXCEPT ![p] = [Resolve(@, res) EXCEPT !.calls = @ + 1]]
  /\ st' = [st EXCEPT !.elicitationRequest = Null]

\* The function stored by setElicitationResolver, invoked with res.
elicitationResolver(p, res) ==
  /\ promise[p].calls < MaxDecides
  /\ promise' = [promise EXCEPT ![p] = [Resolve(@, res) EXCEPT !.calls = @ + 1]]
  /\ st' = [st EXCEPT !.elicitationRequest = Null,
                      !.elicitationResolver = Null]

\* A handleSubmit that would submit the form's content only when it passes
\* the validation, and an empty content otherwise.
handleSubmitStrict(content, outcome) ==
  CASE outcome = "ok"      -> content
    [] outcome = "invalid" -> ""
    [] outcome = "throws"  -> ""

\* ElicitationForm.handleSubmit: the content handed to onSubmit for each
\* outcome of the AJV validation.
handleSubmit(content, outcome) ==
  CASE outcome = "ok"      -> content
    [] outcome = "invalid" -> content
    [] outcome = "throws"  -> content

ModalShown == view.elicitationRequest # Null /\ view.elicitationResolver # Null

\* The modal's onSubmit, reached through the form's submit button.
onSubmit(content, outcome) ==
  /\ ModalShown
  /\ elicitationResolver(view.elicitationResolver,
                         "accept:" \o handleSubmit(content, outcome))
  /\ last' = Step("decide", "accept:" \o outcome)
  /\ UNCHANGED <<view, tstatus, created, closing, requests>>

\* The modal's onCancel, reached through the form's cancel button.
onCancel ==
  /\ ModalShown
  /\ elicitationResolver(view.elicitationResolver, "cancel")
  /\ last' = Step("decide", "cancel")
  /\ UNCHANGED <<view, tstatus, created, closing, requests>>

\* ---- specification ------------------------------------------------------
Decide ==
  \/ \E c \in Contents, o \in ValidationOutcomes : onSubmit(c, o)
  \/ onCancel

Next ==
  \/ MCPProvider
  \/ connect
  \/ \E t \in Transports : connectResolved(t)
  \/ \E t \in Transports : connectRejected(t)
  \/ \E t \in Transports : onclose(t)
  \/ disconnect
  \/ \E t \in Transports, fires \in BOOLEAN : closeResolved(t, fires)
  \/ \E t \in Transports : closeRejected(t)
  \/ listTools
  \/ listPrompts
  \/ getPrompt
  \/ listResources
  \/ readResource
  \/ callTool
  \/ \E r \in Requests : Response(r)
  \/ \E r \in Requests : requestRejected(r)
  \/ \E t \in Transports : ResourceListChanged(t)
  \/ \E r \in Requests : notificationCaught(r)
  \/ \E t \in Transports : ElicitRequest(t)
  \/ Decide

Spec == Init /\ [][Next]_vars

\* The connection lifecycle and the protocol operations alone: the steps
\* that read or write client, transport, isConnected and sessionId.
ConnectionNext ==
  \/ MCPProvider
  \/ connect
  \/ \E t \in Transports : connectResolved(t)
  \/ \E t \in Transports : connectRejected(t)
  \/ \E t \in Transports : onclose(t)
  \/ disconnect
  \/ \E t \in Transports, fires \in BOOLEAN : closeResolved(t, fires)
  \/ \E t \in Transports : closeRejected(t)
  \/ listTools
  \/ listPrompts
  \/ getPrompt
  \/ listResources
  \/ readResource
  \/ callTool
  \/ \E r \in Requests : Response(r)

ConnectionSpec == Init /\ [][ConnectionNext]_vars

\* The requests alone: the steps that make a request or end one, with the
\* connects and transport closes that decide where a request can go.
RequestNext ==
  \/ MCPProvider
  \/ connect
  \/ \E t \in Transports : connectResolved(t)
  \/ \E t \in Transports : connectRejected(t)
  \/ \E t \in Transports : onclose(t)
  \/ listTools
  \/ listPrompts
  \/ getPrompt
  \/ listResources
  \/ readResource
  \/ callTool
  \/ \E r \in Requests : Response(r)
  \/ \E r \in Requests : requestRejected(r)
  \/ \E t \in Transports : ResourceListChanged(t)
  \/ \E r \in Requests : notificationCaught(r)

RequestSpec == Init /\ [][RequestNext]_vars

\* The session while elicitation requests wait for their decision: the
\* arrival of elicitation requests together with the operations, the
\* notifications and the answers to their requests.
ConcurrentNext ==
  \/ MCPProvider
  \/ connect
  \/ \E t \in Transports : connectResolved(t)
  \/ \E t \in Transports : onclose(t)
  \/ \E t \in Transports : ElicitRequest(t)
  \/ listTools
  \/ listPrompts
  \/ getPrompt
  \/ listResources
  \/ readResource
  \/ callTool
  \/ \E r \in Requests : Response(r)
  \/ \E t \in Transports : ResourceListChanged(t)

ConcurrentSpec == Init /\ [][ConcurrentNext]_vars

\* The elicitation rendezvous alone: the steps that read or write the
\* elicitation cells and the promises, with the connects and transport
\* closes that decide whether the server can send a request.
ElicitationNext ==
  \/ MCPProvider
  \/ connect
  \/ \E t \in Transports : connectResolved(t)
  \/ \E t \in Transports : onclose(t)
  \/ \E t \in Transports : ElicitRequest(t)
  \/ Decide

ElicitationSpec == Init /\ [][ElicitationNext]_vars

\* The scheduling the liveness claims rely on: React eventually renders a
\* committed update, and the human eventually answers a form that is shown.
FairSpec == Spec /\ WF_vars(MCPProvider) /\ WF_vars(Decide)

TypeOK ==
  /\ created \in 0..MaxTransports
  /\ \A t \in Transports : tstatus[t] \in {"none", "handshaking", "open", "closed", "failed"}
  /\ st.client \in {Null} \cup Transports
  /\ view.client \in {Null} \cup Transports

\* ---- claims -------------------------------------------------------------
Handshaking == {t \in Transports : tstatus[t] = "handshaking"}

PublicOp ==
  listTools \/ listPrompts \/ getPrompt \/ listResources \/ readResource \/ callTool

SlotActive == st.elicitationResolver # Null

\* C1: a connect() made while an earlier connect() is still in its
\* handshake opens no second transport, so at most one transport is in its
\* handshake at any time.
C1_OneTransportWhileConnecting == Cardinality(Handshaking) <= 1

C3_SecondOfferRejected ==
  [][(\E t \in Transports : ElicitRequest(t))
       => IF SlotActive
            THEN /\ last'.res = "ConcurrentElicitation"
                 /\ st'.elicitationRequest = st.elicitationRequest
                 /\ st'.elicitationResolver = st.elicitationResolver
                 /\ promise' = promise
            ELSE /\ last'.res = "accepted"
                 /\ st'.elicitationResolver # Null
                 /\ promise'[st'.elicitationResolver].status = "suspended"]_vars

\* C4: a disconnect() that completes while requests are pending on the
\* transport and a slot is active rejects those requests and the slot's
\* promise with SessionClosed, and leaves the session disconnected with no
\* slot.
C4_DisconnectInvalidatesAll ==
  [][\A t \in Transports :
       ( /\ \E fires \in BOOLEAN : closeResolved(t, fires)
         /\ SlotActive
         /\ \E r \in Requests : requests[r].client = t /\ requests[r].status = "pending" )
       => /\ ~st'.isConnected
          /\ st'.elicitationRequest = Null
          /\ st'.elicitationResolver = Null
          /\ promise'[st.elicitationResolver].status = "SessionClosed"
          /\ \A r \in Requests :
               (requests[r].client = t /\ requests[r].status = "pending")
                 => requests'[r].status = "SessionClosed"]_vars

\* C5: when every form shown is eventually answered, every promise created
\* by an elicitation request is eventually settled.
C5_EveryOfferCompletes ==
  \A p \in Offers :
    (promise[p].status = "suspended") ~> (promise[p].status # "suspended")

\* C6: once the resolver of a slot has delivered a decision, a further
\* invocation of it delivers nothing: the promise keeps the first decision
\* and is delivered exactly once.
C6_DecideIdempotent ==
  [][\A p \in Offers :
       promise[p].status = "resolved"
         => /\ promise'[p].status = "resolved"
            /\ promise'[p].decision = promise[p].decision
            /\ promise'[p].delivered = 1]_vars

C6_Witness ==
  \E p \in Offers :
    /\ promise[p].calls >= 2
    /\ promise[p].status = "resolved"
    /\ promise[p].delivered = 1

\* C7: a protocol operation invoked while the session is not ready fails
\* with NotConnected and hands nothing to the client.
C7_OpsFailFastUnlessReady ==
  [][(PublicOp /\ ~view.isConnected /\ ~st.isConnected)
       => /\ last'.res = "NotConnected"
          /\ requests' = requests]_vars

\* C8: after a transport-initiated close the session is as after a
\* successful disconnect(): not connected, no client, no transport, no
\* session identifier, no request left pending on the closed transport.
C8_TransportCloseTearsDown ==
  last = Step("onclose", "none")
    => /\ ~st.isConnected
       /\ st.client = Null
       /\ st.transport = Null
       /\ st.sessionId = Null
       /\ \A r \in Requests :
            requests[r].status = "pending" => tstatus[requests[r].client] = "open"

\* C9: the session holds a transport handle exactly when it is ready.
C9_TransportIffReady == (st.transport # Null) <=> st.isConnected

\* C10: when a disconnect() that held a transport has completed, whether
\* close() resolved or rejected, the session is not connected and holds no
\* transport.
C10_DisconnectAlwaysReleases ==
  last.op = "close" => (st.transport = Null /\ ~st.isConnected)

\* C11: disconnect() never throws to its caller: with no transport held it
\* returns without changing anything, and a rejected transport.close() is
\* caught, leaving the state as it was.
C11_DisconnectNeverThrows ==
  [][/\ (disconnect /\ view.transport = Null)
          => /\ last'.res = "noop"
             /\ UNCHANGED <<st, view, tstatus, created, closing, promise, requests>>
     /\ (\E t \in Transports : closeRejected(t))
          => /\ last'.res = "caught"
             /\ UNCHANGED <<st, view, tstatus, created, promise, requests>>
     /\ last'.op \in {"disconnect", "close"}
          => last'.res \in {"noop", "closing", "ok", "caught"}]_vars

C11_Witness ==
  /\ last = Step("close", "caught")
  /\ st.transport # Null
  /\ st.isConnected

\* C12: a failed handshake is surfaced to the caller of connect() as a
\* rejection (HandshakeFailed).
C12_HandshakeFailureSurfaced ==
  (last.op = "handshake" /\ last.res # "ok") => last.res = "HandshakeFailed"

\* C13: a "resource list changed" notification makes exactly one follow-up
\* resources/list request on the client it arrived on and touches nothing
\* else; when that request fails the failure is caught and the session
\* state stays as it was.
C13_NotificationOneFollowUp ==
  [][/\ \A t \in Transports :
          ResourceListChanged(t)
            => /\ \E r \in Requests :
                    /\ requests[r].status = "unused"
                    /\ requests'[r] = [client |-> t, status |-> "pending",
                                       awaiter |-> "notification"]
                    /\ last'.res = "resources/list"
                    /\ \A q \in Requests \ {r} : requests'[q] = requests[q]
               /\ st' = st
     /\ \A r \in Requests :
          (requests[r].awaiter = "notification" /\ requests[r].status = "pending"
             /\ requests'[r].status = "TransportError")
            => /\ last'.res = "caught"
               /\ st' = st
               /\ tstatus' = tstatus]_vars

C13_Witness ==
  /\ last = Step("response", "caught")
  /\ st.isConnected
  /\ \E r \in Requests :
       /\ requests[r].awaiter = "notification"
       /\ requests[r].status = "TransportError"
       /\ tstatus[requests[r].client] = "open"

\* C14: a submit of the form forwards the form's content to the server
\* unchanged and exactly once, whether the content passes the validation,
\* fails it, or the validator throws.
C14_SubmitForwardsContent ==
  [][\A c \in Contents, o \in ValidationOutcomes :
       (onSubmit(c, o) /\ promise[view.elicitationResolver].status = "suspended")
         => /\ promise'[view.elicitationResolver].status = "resolved"
            /\ promise'[view.elicitationResolver].decision = "accept:" \o c
            /\ promise'[view.elicitationResolver].delivered = 1]_vars

C14_Witness ==
  /\ last \in {Step("decide", "accept:invalid"), Step("decide", "accept:throws")}
  /\ \E p \in Offers, c \in Contents :
       /\ promise[p].status = "resolved"
       /\ promise[p].decision = "accept:" \o c
       /\ promise[p].calls = 1
       /\ promise[p].delivered = 1

\* C15: while a slot is active and undecided the rest of the session goes
\* on: an operation on a held client can be delegated, a request in flight
\* can be answered, and a notification on an open transport can be handled.
C15_SessionNotBlocked ==
  (SlotActive /\ promise[st.elicitationResolver].status = "suspended")
    => /\ (view.client # Null /\ FreeRequests # {})
            => /\ ENABLED (listTools /\ last'.res = "delegated")
               /\ ENABLED (listPrompts /\ last'.res = "delegated")
               /\ ENABLED (getPrompt /\ last'.res = "delegated")
               /\ ENABLED (listResources /\ last'.res = "delegated")
               /\ ENABLED (readResource /\ last'.res = "delegated")
               /\ ENABLED (callTool /\ last'.res = "delegated")
       /\ \A r \in Requests :
            requests[r].status = "pending" => ENABLED Response(r)
       /\ \A t \in Transports :
            (tstatus[t] = "open" /\ FreeRequests # {})
              => ENABLED ResourceListChanged(t)

C15_Witness ==
  /\ SlotActive
  /\ promise[st.elicitationResolver].status = "suspended"
  /\ last.res = "delegated"
  /\ \E r \in Requests : requests[r].status = "pending"

\* C16: a failed handshake leaves the session with no client, no transport
\* and not connected, and constructs nothing: a transport is constructed
\* only by a call of connect().
C16_HandshakeFailureResets ==
  [][/\ (\E t \in Transports : connectRejected(t))
          => /\ st'.client = Null
             /\ st'.transport = Null
             /\ ~st'.isConnected
     /\ (created' # created \/ Handshaking' \ Handshaking # {})
          => (connect /\ last'.res = "started")]_vars

C16_Witness ==
  /\ last = Step("handshake", "caught")
  /\ \E t \in Transports : tstatus[t] = "failed"
  /\ \E t \in Transports : tstatus[t] = "open"
  /\ st.client = Null
  /\ st.transport = Null
  /\ ~st.isConnected

\* C17: when a disconnect() has completed or a transport has closed and the
\* session is not connected, no session identifier is held.
C17_NoSessionIdWhenDisconnected ==
  (last.op \in {"close", "onclose"} /\ ~st.isConnected) => st.sessionId = Null

\* C18: whenever isConnected is true, a client and a transport are held,
\* in the committed state and in every render.
C18_ConnectedHoldsClient ==
  /\ st.isConnected => (st.client # Null /\ st.transport # Null)
  /\ view.isConnected => (view.client # Null /\ view.transport # Null)

C18_Witness ==
  /\ st.isConnected
  /\ st.client = 2
  /\ st.transport = 2
  /\ tstatus[1] = "closed"
  /\ last = Step("handshake", "ok")

C20_RequestAndResolverTogether ==
  /\ (st.elicitationRequest = Null) <=> (st.elicitationResolver = Null)
  /\ (view.elicitationRequest = Null) <=> (view.elicitationResolver = Null)
  /\ ModalShown <=> (view.elicitationResolver # Null)
  /\ last.op = "decide"
       => (st.elicitationRequest = Null /\ st.elicitationResolver = Null)

C20_Witness ==
  /\ last.op = "decide"
  /\ st.elicitationRequest = Null
  /\ st.elicitationResolver = Null
  /\ view.elicitationResolver # Null
  /\ promise[view.elicitationResolver].status = "resolved"
====
